---- MODULE Spec2Model ----
(***************************************************************************)
(* Model of the MAPI block codec of monetdb-tokio                          *)
(* (src/src/protocol/codec.rs): the stateful decoder MapiCodec::decode,    *)
(* the encoder MapiCodec::encode, and the byte stream that joins them;     *)
(* of the client over it (src/src/lib.rs, src/src/protocol/mod.rs):        *)
(* connect, bind_transport, call; and of the error classifier              *)
(* parse_error_str (src/src/lib.rs, src/src/error.rs).                     *)
(*                                                                         *)
(* Bytes are integers 0..255.  A buffer (BytesMut, Vec<u8>) and a text     *)
(* (String, &str) are sequences of bytes.  Option<Flag> is a sequence of   *)
(* length 0 (None) or 1 (Some).                                            *)
(***************************************************************************)
EXTENDS Integers, Sequences, FiniteSets, TLC

VARIABLES
    flag,      \* MapiCodec.flag  : Option<Flag>
    block,     \* MapiCodec.block : Vec<u8>
    buf,       \* the BytesMut handed to decode (bytes received, not yet consumed)
    out,       \* the BytesMut handed to encode (bytes encoded, not yet written)
    wire,      \* bytes written towards the decoder that have not arrived yet
    written,   \* number of bytes ever written to the wire
    ret,       \* what decode returned, when the last step was a decode call
    pre,       \* the codec and buffer as they were when that decode call began
    emitted,   \* the messages decode has returned as Ok(Some(_)), in order
    failed,    \* decode has returned Err at least once
    chunks,    \* the chunks the server has sent, in order: [payload, last]
    encoded,   \* the messages handed to encode, in order
    calls,     \* decode calls so far: [n, early]; n stops counting at MaxCalls
    conn,      \* the connection: [state, handshake]
    queue,     \* requests handed to call that the client has not written yet
    requests,  \* requests written to the transport, in order
    returned,  \* responses the calls have resolved to, in call order
    ready,     \* the framed transport will call decode without reading first
    parsed     \* the last classification: [text, result], or NotParsed

codecVars == <<flag, block, buf, out, wire, written, ret, pre, emitted,
               failed, chunks, encoded, calls>>
clientVars == <<conn, queue, requests, returned, ready>>
vars == <<codecVars, clientVars, parsed>>

---------------------------------------------------------------------------
(* Bounds of the model *)

\* Streams no longer than MaxHead bytes are written and delivered freely.
MaxHead == 9
\* A delivery may also leave at most MaxTail bytes of the wire behind.
MaxTail == 2
\* The decode-call counter stops counting at MaxCalls.
MaxCalls == 3
\* At most MaxEncodes messages are handed to encode.
MaxEncodes == 2
\* At most MaxRequests requests are handed to call.
MaxRequests == 2

---------------------------------------------------------------------------
(* Program constants and types *)

MAX_PACKAGE_LENGTH == (1024 * 8) - 2

U16 == 2 ^ 16

None == << >>
Some(x) == << x >>

Flag(len, lst) == [length |-> len, last |-> lst]

MapiCodec_new == [flag |-> None, block |-> << >>]

OkNone == [kind |-> "None", item |-> << >>]
OkSome(s) == [kind |-> "Some", item |-> s]
Err == [kind |-> "Err", item |-> << >>]

Min(a, b) == IF a < b THEN a ELSE b

---------------------------------------------------------------------------
(* str::from_utf8: whether a byte sequence is well-formed UTF-8 *)

IsCont(b) == b >= 128 /\ b <= 191

\* Width of the sequence a byte starts; 0 when the byte cannot start one.
Utf8Width(b) ==
    IF b <= 127 THEN 1
    ELSE IF b >= 194 /\ b <= 223 THEN 2
    ELSE IF b >= 224 /\ b <= 239 THEN 3
    ELSE IF b >= 240 /\ b <= 244 THEN 4
    ELSE 0

\* The range the second byte of a sequence must lie in, given its first.
SecondOk(b1, b2) ==
    IF b1 = 224 THEN b2 >= 160 /\ b2 <= 191
    ELSE IF b1 = 237 THEN b2 >= 128 /\ b2 <= 159
    ELSE IF b1 = 240 THEN b2 >= 144 /\ b2 <= 191
    ELSE IF b1 = 244 THEN b2 >= 128 /\ b2 <= 143
    ELSE IsCont(b2)

from_utf8_ok(s) ==
    \A i \in 1..Len(s) :
        IF IsCont(s[i])
        THEN \* a continuation byte belongs to a sequence started just before
             \E d \in 1..3 :
                /\ i - d >= 1
                /\ Utf8Width(s[i - d]) > d
                /\ \A j \in (i - d + 1)..(i - 1) : IsCont(s[j])
        ELSE \* any other byte starts a complete, well-formed sequence
             LET w == Utf8Width(s[i]) IN
                /\ w >= 1
                /\ i + w - 1 <= Len(s)
                /\ \A j \in (i + 1)..(i + w - 1) : IsCont(s[j])
                /\ w >= 2 => SecondOk(s[i], s[i + 1])

---------------------------------------------------------------------------
(* BytesMut and byteorder helpers *)

\* BytesMut::split_to(n): the first n bytes, removed from the buffer.
split_to_head(b, n) == SubSeq(b, 1, n)
split_to_rest(b, n) == SubSeq(b, n + 1, Len(b))

\* read_u16::<LittleEndian> of a 2-byte buffer.
read_u16_le(b) == b[1] + 256 * b[2]

\* A write that puts the high byte first.
write_u16_be(f) == << f \div 256, f % 256 >>

\* write_u16::<LittleEndian>.
write_u16_le(f) == << f % 256, f \div 256 >>

---------------------------------------------------------------------------
(* MapiCodec::decode *)

\* The result of one decode call: the codec's fields, the buffer, the return.
DecodeResult(f, blk, b, r) == [flag |-> f, block |-> blk, buf |-> b, ret |-> r]

\* A decode that throws the lone byte away when the header is incomplete.
HeaderShort_Drops(f, blk, b) == DecodeResult(f, blk, << >>, OkNone)

\* Line 65: no flag pending and fewer than 2 bytes: return Ok(None).
HeaderShort(f, blk, b) == DecodeResult(f, blk, b, OkNone)

\* Lines 66-71: split off 2 bytes and parse them into a Flag.
ParseFlag(b) ==
    LET fl == read_u16_le(split_to_head(b, 2))
    IN  Flag(fl \div 2, fl % 2)

\* A decode that moves the part of the payload that is there into the block.
ChunkShort_Partial(f, blk, b) == DecodeResult(f, blk \o b, << >>, OkNone)

\* Line 77: a flag is pending and the chunk is not complete: return Ok(None).
ChunkShort(f, blk, b) == DecodeResult(f, blk, b, OkNone)

\* A decode that hands the block over without checking it is UTF-8.
Finish_Unchecked(last, blk) == IF last = 1 THEN OkSome(blk) ELSE OkNone

\* Lines 93-100: what decode returns once the chunk is appended to the block.
Finish(last, blk) ==
    IF last = 1
    THEN IF from_utf8_ok(blk) THEN OkSome(blk) ELSE Err
    ELSE OkNone

\* Line 84 and the fields decode leaves behind: the block after the chunk.
BlockAfter(blk, bytes) == blk \o bytes

\* Lines 76-100: with the flag f1 pending over buffer b1.
TakeChunk(f1, blk, b1) ==
    LET length == f1[1].length
    IN  IF length > Len(b1)
        THEN ChunkShort(f1, blk, b1)
        ELSE LET bytes == split_to_head(b1, length)
                 rest  == split_to_rest(b1, length)
                 blk2  == BlockAfter(blk, bytes)
                 last  == f1[1].last
             IN  DecodeResult(None, blk2, rest, Finish(last, blk2))

decode(f, blk, b) ==
    IF f = None
    THEN IF Len(b) < 2
         THEN HeaderShort(f, blk, b)
         ELSE TakeChunk(Some(ParseFlag(b)), blk, split_to_rest(b, 2))
    ELSE TakeChunk(f, blk, b)

---------------------------------------------------------------------------
(* MapiCodec::encode *)

\* A last that is also 1 for a chunk of exactly MAX_PACKAGE_LENGTH bytes.
LastOf_AtMost(length) == IF length <= MAX_PACKAGE_LENGTH THEN 1 ELSE 0

\* Line 117: last is 1 when the chunk is shorter than MAX_PACKAGE_LENGTH.
LastOf(length) == IF length < MAX_PACKAGE_LENGTH THEN 1 ELSE 0

\* Lines 116-118: the u16 flag of a chunk.
FlagOf(chunk) ==
    LET length == Len(chunk) % U16
    IN  (((length * 2) % U16) + LastOf(length)) % U16

\* slice::chunks(n): the k-th chunk (k >= 1) of bytes, n bytes each.
NumChunks(bytes, n) == (Len(bytes) + n - 1) \div n
ChunkAt(bytes, n, k) == SubSeq(bytes, (k - 1) * n + 1, Min(k * n, Len(bytes)))

\* Lines 115-125: the loop, from chunk k on, appending to the buffer b.
RECURSIVE encode_from(_, _, _)
encode_from(bytes, k, b) ==
    IF k > NumChunks(bytes, MAX_PACKAGE_LENGTH)
    THEN b
    ELSE LET chunk == ChunkAt(bytes, MAX_PACKAGE_LENGTH, k)
         IN  encode_from(bytes, k + 1, b \o write_u16_le(FlagOf(chunk)) \o chunk)

\* An encode that starts from an empty buffer instead of appending.
encode_overwrites(msg, b) == encode_from(msg, 1, << >>)

encode(msg, b) == encode_from(msg, 1, b)

---------------------------------------------------------------------------
(* MonetError::from_mapi_code and parse_error_str *)

OperationalError == "OperationalError"
IntegrityError == "IntegrityError"

\* The codes of the table, as bytes: "42S02!", "M0M29!", "2D000!", "40000!".
Code42S02 == <<52, 50, 83, 48, 50, 33>>
CodeM0M29 == <<77, 48, 77, 50, 57, 33>>
Code2D000 == <<50, 68, 48, 48, 48, 33>>
Code40000 == <<52, 48, 48, 48, 48, 33>>

from_mapi_code(code) ==
    IF code = Code42S02 THEN Some(OperationalError)
    ELSE IF code = CodeM0M29 THEN Some(IntegrityError)
    ELSE IF code = Code2D000 THEN Some(IntegrityError)
    ELSE IF code = Code40000 THEN Some(IntegrityError)
    ELSE None

\* str::is_char_boundary: index is a byte offset counted from 0.
is_char_boundary(s, index) ==
    \/ index = 0
    \/ index = Len(s)
    \/ index < Len(s) /\ ~IsCont(s[index + 1])

\* Slicing a str off a char boundary panics.
Panicked == [kind |-> "panic", rest |-> << >>]
Classified(kind, rest) == [kind |-> kind, rest |-> rest]

\* s.len() is the length in bytes; &s[0..6] and &s[6..] are byte slices.
parse_error_str(s) ==
    IF Len(s) > 6
    THEN IF ~is_char_boundary(s, 6)
         THEN Panicked
         ELSE LET err == from_mapi_code(SubSeq(s, 1, 6)) IN
              IF err # None
              THEN Classified(err[1], SubSeq(s, 7, Len(s)))
              ELSE Classified(OperationalError, s)
    ELSE Classified(OperationalError, s)

---------------------------------------------------------------------------
(* Connection::connect: the address it builds and parses *)

IsDigit(b) == b >= 48 /\ b <= 57

\* The value of a sequence of decimal digits.
RECURSIVE DecValue(_)
DecValue(s) ==
    IF s = << >> THEN 0
    ELSE DecValue(SubSeq(s, 1, Len(s) - 1)) * 10 + (s[Len(s)] - 48)

\* format!("{}", n) of an unsigned number: its decimal digits.
RECURSIVE fmt_usize(_)
fmt_usize(n) ==
    IF n < 10 THEN << 48 + n >> ELSE fmt_usize(n \div 10) \o << 48 + (n % 10) >>

\* Lines 56-62: "mapi://{}:{}@{}:{}/{})".
format_addr(params) ==
    <<109, 97, 112, 105, 58, 47, 47>> \o params.username \o <<58>>
        \o params.password \o <<64>> \o params.hostname \o <<58>>
        \o fmt_usize(params.port) \o <<47>> \o params.database \o <<41>>

\* A decimal number of at most width digits and value at most max.
IsNumber(s, width, max) ==
    /\ Len(s) >= 1
    /\ Len(s) <= width
    /\ \A i \in 1..Len(s) : IsDigit(s[i])
    /\ DecValue(s) <= max

\* Four numbers up to 255 separated by dots.
IsIpv4(s) ==
    \E i \in 1..Len(s) :
        /\ s[i] = 46
        /\ IsNumber(SubSeq(s, 1, i - 1), 3, 255)
        /\ \E j \in (i + 1)..Len(s) :
            /\ s[j] = 46
            /\ IsNumber(SubSeq(s, i + 1, j - 1), 3, 255)
            /\ \E k \in (j + 1)..Len(s) :
                /\ s[k] = 46
                /\ IsNumber(SubSeq(s, j + 1, k - 1), 3, 255)
                /\ IsNumber(SubSeq(s, k + 1, Len(s)), 3, 255)

\* "a.b.c.d:port".
IsSocketAddrV4(s) ==
    \E c \in 1..Len(s) :
        /\ s[c] = 58
        /\ IsIpv4(SubSeq(s, 1, c - 1))
        /\ IsNumber(SubSeq(s, c + 1, Len(s)), 5, 65535)

\* "[v6]:port"; what stands between the brackets is not looked into.
IsSocketAddrV6(s) ==
    /\ Len(s) >= 1
    /\ s[1] = 91
    /\ \E c \in 2..(Len(s) - 1) :
        /\ s[c] = 93
        /\ s[c + 1] = 58
        /\ IsNumber(SubSeq(s, c + 2, Len(s)), 5, 65535)

\* str::parse::<SocketAddr>().
parse_socket_addr(s) ==
    IF IsSocketAddrV4(s) \/ IsSocketAddrV6(s) THEN Some(s) ELSE None

\* Lines 64-69: unwrap panics on Err; otherwise TcpClient::connect resolves
\* to a bound connection or to an io::Error.
connect_outcomes(addr) ==
    IF parse_socket_addr(addr) = None
    THEN {"panicked"}
    ELSE {"bound", "io_error"}

---------------------------------------------------------------------------
(* The environment: what is encoded, what the server sends, how it arrives *)

\* A text of n ASCII bytes whose bytes vary with their position.
Text(n) == [i \in 1..n |-> 97 + (i % 3)]

\* Message lengths at and around the chunk size: no chunk, one short chunk,
\* one full chunk, a full chunk and a short one, two full chunks.
MessageLengths ==
    {0, 1, 2, MAX_PACKAGE_LENGTH - 1, MAX_PACKAGE_LENGTH,
     MAX_PACKAGE_LENGTH + 1, 2 * MAX_PACKAGE_LENGTH}

\* Messages handed to encode: Rust Strings, so always well-formed UTF-8.
\* "this is test input", the text of the decode test (lines 141, 155, 169).
TestInput ==
    <<116, 104, 105, 115, 32, 105, 115, 32, 116, 101, 115, 116, 32,
      105, 110, 112, 117, 116>>

Messages == {Text(n) : n \in MessageLengths} \cup {<<195, 169>>, TestInput}

\* Payloads of the chunks a server sends: "", "a", "ab", and the two bytes
\* of U+00E9 apart (each ill-formed alone, well-formed together).
Payloads == {<< >>, <<97>>, <<97, 98>>, <<195>>, <<169>>}

\* The bytes of one chunk as a server writes it.
ChunkBytes(payload, last) == write_u16_le(Len(payload) * 2 + last) \o payload

\* Bytes that have arrived so far.
Arrived == written - Len(wire)

\* Nothing has been encoded or sent yet.
NothingWritten == encoded = << >> /\ chunks = << >>

\* No call was made and returned in the last step.
NoCall == [kind |-> "NoCall", item |-> << >>]
NoPre == [flag |-> None, block |-> << >>, buf |-> << >>,
          failed |-> FALSE, emitted |-> 0]

\* Byte sequences a peer may write that are not the chunks of any block:
\* headers whose length field is 8191 (last 0) and 32767 (last 1), the
\* header of a 1-byte final chunk, and a payload byte.
RawUnits == {<<254, 63>>, <<255, 255>>, <<3, 0>>, <<97>>}

\* Request texts handed to call: "s" and "q;".
Requests == {<<115>>, <<113, 59>>}

\* The number of response blocks the server has finished sending.
BlocksSent == Cardinality({i \in DOMAIN chunks : chunks[i].last = 1})

\* Params: the default of lines 36-44 and variations of host, port, database.
Monetdb == <<109, 111, 110, 101, 116, 100, 98>>
Hostnames ==
    {<<108, 111, 99, 97, 108, 104, 111, 115, 116>>,
     <<49, 50, 55, 46, 48, 46, 48, 46, 49>>}
ParamsSet ==
    [hostname : Hostnames, port : {50000, 80}, username : {Monetdb},
     password : {Monetdb}, database : {Monetdb, <<100, 98>>}]

\* No connection yet; bound means bind_transport has returned the transport.
NoConn == [state |-> "none", handshake |-> FALSE]

\* Texts handed to parse_error_str: a beginning followed by a remainder.
\* Beginnings: the four codes, "", "XX", "42S0", "42S03!", "m0m29!", "aaaaa".
Beginnings ==
    {Code42S02, CodeM0M29, Code2D000, Code40000, << >>, <<88, 88>>,
     <<52, 50, 83, 48>>, <<52, 50, 83, 48, 51, 33>>,
     <<109, 48, 109, 50, 57, 33>>, <<97, 97, 97, 97, 97>>}
\* Remainders: "", "r", "rest", "!", "2!", U+00E9, U+00E9 "x", "x" U+00E9,
\* " no such table", "42S02!", "M0M29!rest".
Remainders ==
    {<< >>, <<114>>, <<114, 101, 115, 116>>, <<33>>, <<50, 33>>, <<195, 169>>,
     <<195, 169, 120>>, <<120, 195, 169>>,
     <<32, 110, 111, 32, 115, 117, 99, 104, 32, 116, 97, 98, 108, 101>>,
     Code42S02, CodeM0M29 \o <<114, 101, 115, 116>>}
\* A &str is well-formed UTF-8.
ErrorTexts ==
    {t \in {b \o r : b \in Beginnings, r \in Remainders} : from_utf8_ok(t)}

NotParsed == [text |-> << >>, result |-> [kind |-> "none", rest |-> << >>]]

---------------------------------------------------------------------------
(* Initial state: MapiCodec::new() over empty buffers *)

Init ==
    /\ flag = MapiCodec_new.flag
    /\ block = MapiCodec_new.block
    /\ buf = << >>
    /\ out = << >>
    /\ wire = << >>
    /\ written = 0
    /\ ret = NoCall
    /\ pre = NoPre
    /\ emitted = << >>
    /\ failed = FALSE
    /\ chunks = << >>
    /\ encoded = << >>
    /\ calls = [n |-> 0, early |-> FALSE]
    /\ conn = NoConn
    /\ queue = << >>
    /\ requests = << >>
    /\ returned = << >>
    /\ ready = FALSE
    /\ parsed = NotParsed

---------------------------------------------------------------------------
(* Actions *)

\* encode(msg, out).  A message longer than MaxHead is encoded only into an
\* empty buffer on a stream nothing was written to.
Encode(msg) ==
    LET res == encode(msg, out) IN
    /\ Len(encoded) < MaxEncodes
    /\ (out = << >> /\ written = 0) \/ written + Len(res) <= MaxHead
    /\ out' = res
    /\ encoded' = Append(encoded, msg)
    /\ ret' = NoCall
    /\ pre' = NoPre
    /\ UNCHANGED <<flag, block, buf, wire, written, emitted, failed, chunks,
                   calls, clientVars, parsed>>

\* The transport writes the encoded bytes to the stream, which in the
\* round trip leads back to the decoder.
Flush ==
    /\ out # << >>
    /\ wire' = wire \o out
    /\ written' = written + Len(out)
    /\ out' = << >>
    /\ ret' = NoCall
    /\ pre' = NoPre
    /\ UNCHANGED <<flag, block, buf, emitted, failed, chunks, encoded, calls,
                   clientVars, parsed>>

\* The server writes one chunk to the stream.
Send(payload, last) ==
    /\ written + 2 + Len(payload) <= MaxHead
    /\ wire' = wire \o ChunkBytes(payload, last)
    /\ written' = written + 2 + Len(payload)
    /\ chunks' = Append(chunks, [payload |-> payload, last |-> last])
    /\ ret' = NoCall
    /\ pre' = NoPre
    /\ UNCHANGED <<flag, block, buf, out, emitted, failed, encoded, calls,
                   clientVars, parsed>>

\* The next k bytes of the stream arrive in the buffer.  The split lies in
\* the first MaxHead bytes of the stream or in the last MaxTail of the wire.
DeliverBytes(k) ==
    /\ Arrived + k <= MaxHead \/ Len(wire) - k <= MaxTail
    /\ buf' = buf \o SubSeq(wire, 1, k)
    /\ wire' = SubSeq(wire, k + 1, Len(wire))
    /\ ret' = NoCall
    /\ pre' = NoPre
    /\ UNCHANGED <<flag, block, out, written, emitted, failed, chunks,
                   encoded, calls>>

\* The bytes arrive; who calls decode, and when, is left open.
Deliver(k) == DeliverBytes(k) /\ UNCHANGED <<clientVars, parsed>>

\* One call of decode on the buffer: the codec, the buffer and the record
\* of the call.
DecodeCall ==
    LET r == decode(flag, block, buf) IN
    /\ flag' = r.flag
    /\ block' = r.block
    /\ buf' = r.buf
    /\ ret' = r.ret
    /\ pre' = [flag |-> flag, block |-> block, buf |-> buf,
                failed |-> failed, emitted |-> Len(emitted)]
    /\ emitted' = IF r.ret.kind = "Some" THEN Append(emitted, r.ret.item)
                  ELSE emitted
    /\ failed' = (failed \/ r.ret.kind = "Err")
    /\ calls' = [n |-> Min(calls.n + 1, MaxCalls),
                 early |-> (calls.early \/ wire # << >> \/ out # << >>
                            \/ NothingWritten)]
    /\ UNCHANGED <<out, wire, written, chunks, encoded>>

\* One call of decode on the buffer, made directly on the codec.
Decode == DecodeCall /\ UNCHANGED <<clientVars, parsed>>

\* A peer writes bytes that need not be the chunks of a block.
SendRaw(bytes) ==
    /\ written + Len(bytes) <= MaxHead
    /\ wire' = wire \o bytes
    /\ written' = written + Len(bytes)
    /\ ret' = NoCall
    /\ pre' = NoPre
    /\ UNCHANGED <<flag, block, buf, out, emitted, failed, chunks, encoded,
                   calls, clientVars, parsed>>

\* parse_error_str(text).
Classify(text) ==
    /\ parsed' = [text |-> text, result |-> parse_error_str(text)]
    /\ UNCHANGED <<codecVars, clientVars>>

\* Connection::connect(params): the address is built and parsed; unwrap
\* panics when it does not parse.
Connect(params) ==
    /\ conn.state = "none"
    /\ \E outcome \in connect_outcomes(format_addr(params)) :
           conn' = [state |-> outcome, handshake |-> FALSE]
    /\ ret' = NoCall
    /\ pre' = NoPre
    /\ UNCHANGED <<flag, block, buf, out, wire, written, emitted, failed,
                   chunks, encoded, calls, queue, requests, returned, ready,
                   parsed>>

\* MapiProtocol::bind_transport(io), which TcpClient calls on the stream it
\* has opened: the stream framed by a new codec, and nothing else.
BindTransport ==
    /\ conn.state = "none"
    /\ conn' = [state |-> "bound", handshake |-> FALSE]
    /\ flag' = MapiCodec_new.flag
    /\ block' = MapiCodec_new.block
    /\ ret' = NoCall
    /\ pre' = NoPre
    /\ UNCHANGED <<buf, out, wire, written, emitted, failed, chunks, encoded,
                   calls, queue, requests, returned, ready, parsed>>

\* Connection::call(req): the request is handed to the pipeline client
\* service, which queues it for the task that drives the transport.
Call(req) ==
    /\ conn.state = "bound"
    /\ Len(queue) + Len(requests) < MaxRequests
    /\ queue' = Append(queue, req)
    /\ ret' = NoCall
    /\ pre' = NoPre
    /\ UNCHANGED <<flag, block, buf, out, wire, written, emitted, failed,
                   chunks, encoded, calls, conn, requests, returned, ready,
                   parsed>>

\* The pipeline client writes the next queued request: it is encoded into
\* the write buffer of the framed transport and the buffer is written out.
\* Nothing in it waits for the responses to the requests written before.
WriteRequest ==
    /\ conn.state = "bound"
    /\ queue # << >>
    /\ requests' = Append(requests, [text |-> Head(queue),
                                     bytes |-> encode(Head(queue), out)])
    /\ queue' = Tail(queue)
    /\ ret' = NoCall
    /\ pre' = NoPre
    /\ UNCHANGED <<flag, block, buf, out, wire, written, emitted, failed,
                   chunks, encoded, calls, conn, returned, ready, parsed>>

\* The server writes one chunk of its response to a request it has
\* received: one block for each request.
Respond(payload, last) ==
    /\ BlocksSent < Len(requests)
    /\ Send(payload, last)

\* The pipeline client reads the transport: one call of decode; a message
\* resolves the oldest call still waiting, an error fails the connection.
Poll ==
    /\ conn.state = "bound"
    /\ DecodeCall
    /\ returned' = IF ret'.kind = "Some" /\ Len(returned) < Len(requests)
                   THEN Append(returned, ret'.item)
                   ELSE returned
    /\ conn' = IF ret'.kind = "Err" THEN [conn EXCEPT !.state = "failed"]
               ELSE conn
    /\ UNCHANGED <<queue, requests, ready, parsed>>

\* The framed transport reads the k bytes that have arrived into its
\* buffer; having read, it will call decode.
Arrive(k) ==
    /\ DeliverBytes(k)
    /\ ready' = TRUE
    /\ UNCHANGED <<conn, queue, requests, returned, parsed>>

\* The framed transport calls decode when it has read new bytes or has just
\* handed a message over; after Ok(None) it reads before it calls decode
\* again, and after Err it has ended.
DrivenDecode ==
    /\ ready
    /\ DecodeCall
    /\ ready' = (ret'.kind = "Some")
    /\ UNCHANGED <<conn, queue, requests, returned, parsed>>

\* A connection to a server: chunks arrive and are decoded.
Next ==
    \/ \E payload \in Payloads, last \in {0, 1} : Send(payload, last)
    \/ \E k \in 1..Len(wire) : Deliver(k)
    \/ Decode

Spec == Init /\ [][Next]_vars

\* The round trip: what encode writes is fed to the decoder.
NextCodec ==
    \/ \E msg \in Messages : Encode(msg)
    \/ Flush
    \/ \E k \in 1..Len(wire) : Deliver(k)
    \/ Decode

SpecCodec == Init /\ [][NextCodec]_vars

\* A peer that writes any bytes.
NextRaw ==
    \/ \E bytes \in RawUnits : SendRaw(bytes)
    \/ \E k \in 1..Len(wire) : Deliver(k)
    \/ Decode

SpecRaw == Init /\ [][NextRaw]_vars

\* Payloads that are text: the responses of a server that sends text only.
TextPayloads == {p \in Payloads : from_utf8_ok(p)}

\* A connection to a server, read by the framed transport.
NextDriven ==
    \/ \E payload \in TextPayloads, last \in {0, 1} : Send(payload, last)
    \/ \E k \in 1..Len(wire) : Arrive(k)
    \/ DrivenDecode

\* The task that drives the transport is polled when there is work for it:
\* a decode call that is due is made.
SpecDriven == Init /\ [][NextDriven]_vars /\ WF_vars(DrivenDecode)

\* The client: connect, calls on a bound connection, the server's responses.
NextClient ==
    \/ \E params \in ParamsSet : Connect(params)
    \/ BindTransport
    \/ \E req \in Requests : Call(req)
    \/ WriteRequest
    \/ \E payload \in Payloads, last \in {0, 1} : Respond(payload, last)
    \/ \E k \in 1..Len(wire) : Deliver(k)
    \/ Poll

SpecClient == Init /\ [][NextClient]_vars

\* The error classifier applied to texts.
NextError == \E text \in ErrorTexts : Classify(text)

SpecError == Init /\ [][NextError]_vars

---------------------------------------------------------------------------
(* Vocabulary of the properties *)

\* The last step was a decode call; ret and pre describe it.
LastStepDecode == ret.kind # "NoCall"

\* Everything encoded or sent has arrived in the buffer.
AllArrived == out = << >> /\ wire = << >>

\* A decode call now would consume nothing.
Quiescent ==
    \/ flag = None /\ Len(buf) < 2
    \/ flag # None /\ flag[1].length > Len(buf)

IsPrefix(s, t) == Len(s) <= Len(t) /\ SubSeq(t, 1, Len(s)) = s

\* The concatenation of a sequence of byte sequences.
RECURSIVE Concat(_)
Concat(ss) == IF ss = << >> THEN << >> ELSE Head(ss) \o Concat(Tail(ss))

\* The complete blocks among the chunks cs, each the sequence of its
\* chunks' payloads: a block ends with the chunk whose last is 1.
RECURSIVE BlocksFrom(_, _, _)
BlocksFrom(cs, i, cur) ==
    IF i > Len(cs) THEN << >>
    ELSE LET cur2 == Append(cur, cs[i].payload)
         IN  IF cs[i].last = 1
             THEN << cur2 >> \o BlocksFrom(cs, i + 1, << >>)
             ELSE BlocksFrom(cs, i + 1, cur2)

BlocksOf(cs) == BlocksFrom(cs, 1, << >>)

\* The chunks a byte sequence is made of, read header by header.
RECURSIVE ChunksOf(_)
ChunksOf(bytes) ==
    IF Len(bytes) < 2 THEN << >>
    ELSE LET fl == read_u16_le(SubSeq(bytes, 1, 2))
             n  == Min(fl \div 2, Len(bytes) - 2)
         IN  << [payload |-> SubSeq(bytes, 3, 2 + n), length |-> fl \div 2,
                 last |-> fl % 2] >>
             \o ChunksOf(SubSeq(bytes, 3 + n, Len(bytes)))

\* The single message encoded, flushed and arrived whole, if that is all
\* that happened on the stream.
OneEncoded ==
    /\ Len(encoded) = 1
    /\ chunks = << >>
    /\ AllArrived
    /\ written = Len(encode(encoded[1], << >>))

\* What a fresh decoder emits when fed b whole, decode being called again
\* on the same buffer while it consumes bytes.
RECURSIVE DrainFrom(_, _, _, _)
DrainFrom(f, blk, b, got) ==
    LET r == decode(f, blk, b)
        got2 == IF r.ret.kind = "Some" THEN Append(got, r.ret.item) ELSE got
    IN  IF r.flag = f /\ r.buf = b /\ r.block = blk THEN got2
        ELSE DrainFrom(r.flag, r.block, r.buf, got2)

FedWhole(b) == DrainFrom(MapiCodec_new.flag, MapiCodec_new.block, b, << >>)

\* The header the last decode call worked with: the one pending when it
\* began, or else the one at the front of the buffer.
PreHasHeader == pre.flag # None \/ Len(pre.buf) >= 2
PreHeader ==
    IF pre.flag # None THEN pre.flag[1]
    ELSE [length |-> (pre.buf[1] + 256 * pre.buf[2]) \div 2,
          last   |-> (pre.buf[1] + 256 * pre.buf[2]) % 2]
\* The buffer behind that header, where the chunk's payload is expected.
PrePayloadBuf ==
    IF pre.flag # None THEN pre.buf ELSE SubSeq(pre.buf, 3, Len(pre.buf))

\* The last decode call had a header and the whole payload behind it.
TookChunk ==
    LastStepDecode /\ PreHasHeader /\ Len(PrePayloadBuf) >= PreHeader.length

\* Bytes decode has consumed from the buffer so far.
Consumed == written - Len(wire) - Len(buf)

\* The bytes of the stream up to the end of the j-th block the server sent.
EndOfBlock(j) ==
    LET bs == BlocksOf(chunks)
        Size[b \in 0..j] ==
            IF b = 0 THEN 0
            ELSE Size[b - 1] + 2 * Len(bs[b]) + Len(Concat(bs[b]))
    IN  Size[j]

---------------------------------------------------------------------------
(* Round trip and encoding *)

\* The lengths the round-trip property names.
RoundTripLengths ==
    {0, 1, MAX_PACKAGE_LENGTH - 1, MAX_PACKAGE_LENGTH,
     MAX_PACKAGE_LENGTH + 1, 2 * MAX_PACKAGE_LENGTH}

\* C1: a message m of one of the round-trip lengths, encoded into an empty
\* buffer and fed whole to a fresh decoder, decode being re-invoked on the
\* same buffer until it consumes nothing more, is emitted as the one
\* message, exactly m.
C1_RoundTrip ==
    ( /\ OneEncoded
      /\ Len(encoded[1]) \in RoundTripLengths
      /\ calls.n >= 1
      /\ ~calls.early
      /\ Quiescent )
    => emitted = << encoded[1] >>

\* C4: the output of encode(m) is a non-empty sequence of chunks of which
\* exactly the final one has last = 1.  Stated of the buffer right after one
\* encode call into an empty buffer.
C4_FinalChunkLast ==
    ( /\ Len(encoded) = 1
      /\ written = 0
      /\ out = encode(encoded[1], << >>) )
    => LET cs == ChunksOf(out)
       IN  /\ Len(cs) >= 1
           /\ \A i \in 1..Len(cs) : (cs[i].last = 1) <=> (i = Len(cs))

\* C5: feeding the first k bytes of encode(m), calling decode, appending
\* the rest and calling decode again emits what feeding encode(m) whole
\* emits.  Stated of the state after the second call.
C5_PartialDelivery ==
    ( /\ OneEncoded
      /\ calls.n = 2
      /\ LastStepDecode )
    => emitted = FedWhole(encode(encoded[1], << >>))

\* C5 with "fed whole" read as a single decode call on the whole buffer.
C5_PartialDeliveryOneCall ==
    ( /\ OneEncoded
      /\ calls.n = 2
      /\ LastStepDecode )
    => LET r == decode(MapiCodec_new.flag, MapiCodec_new.block,
                       encode(encoded[1], << >>))
       IN  emitted = IF r.ret.kind = "Some" THEN << r.ret.item >> ELSE << >>

---------------------------------------------------------------------------
(* Decoder state across calls and blocks *)

\* C2: after a decode call that emits a message the decoder is reset to
\* (no pending header, empty accumulated buffer); after a call that returns
\* need-more-data nothing accumulated is lost.
C2_ResetAfterEmit ==
    LastStepDecode =>
        /\ ret.kind = "Some" => (flag = None /\ block = << >>)
        /\ ret.kind = "None" => IsPrefix(pre.block, block)

\* C3: the k-th message emitted is the concatenation of the payloads of the
\* chunks of the k-th block alone (while no block has failed to decode).
C3_BlockIsolation ==
    ~failed =>
        /\ Len(emitted) <= Len(BlocksOf(chunks))
        /\ \A k \in 1..Len(emitted) :
               emitted[k] = Concat(BlocksOf(chunks)[k])

\* C6: when a header of length L is pending, or has just been parsed, and
\* the buffer holds fewer than L bytes, decode reports need-more-data, takes
\* no payload byte and keeps the header and the accumulated bytes; and the
\* call made with the header pending once the payload is there, for a chunk
\* with last = 1, returns the full block.
C6_InsufficientPayload ==
    (LastStepDecode /\ PreHasHeader) =>
        /\ Len(PrePayloadBuf) < PreHeader.length =>
              /\ ret = OkNone
              /\ buf = PrePayloadBuf
              /\ flag = Some(PreHeader)
              /\ block = pre.block
        /\ ( /\ pre.flag # None
             /\ Len(PrePayloadBuf) >= PreHeader.length
             /\ PreHeader.last = 1
             /\ ~pre.failed
             /\ pre.emitted < Len(BlocksOf(chunks))
             /\ from_utf8_ok(Concat(BlocksOf(chunks)[pre.emitted + 1])) ) =>
              ret = OkSome(Concat(BlocksOf(chunks)[pre.emitted + 1]))

\* C7: with no header pending and fewer than 2 bytes in the buffer, decode
\* reports need-more-data and leaves the buffer, the pending header and the
\* accumulated bytes as they were.
C7_InsufficientHeader ==
    (LastStepDecode /\ pre.flag = None /\ Len(pre.buf) < 2) =>
        /\ ret = OkNone
        /\ buf = pre.buf
        /\ flag = pre.flag
        /\ block = pre.block
        /\ Len(emitted) = pre.emitted

\* C7's case: a call on a lone byte, in the middle of a connection.
C7_Witness ==
    /\ LastStepDecode
    /\ pre.flag = None
    /\ Len(pre.buf) = 1
    /\ pre.block # << >>
    /\ ret = OkNone
    /\ buf = pre.buf

\* C8: a block of three chunks (last = 0, 0, 1) is emitted as one message,
\* the concatenation of the three payloads in order, and not before its
\* third chunk is consumed.
C8_ThreeChunkBlock ==
    ~failed =>
        \A j \in 1..Len(BlocksOf(chunks)) :
            (Len(BlocksOf(chunks)[j]) = 3 /\ Len(emitted) >= j) =>
                /\ emitted[j] = Concat(BlocksOf(chunks)[j])
                /\ Consumed >= EndOfBlock(j)

\* C9: when decode takes the chunk with last = 1 and the bytes accumulated
\* for the block are not well-formed UTF-8, it returns the failure and emits
\* nothing; so does it when the block's own payload is ill-formed, on a
\* decoder that has not failed before.
C9_InvalidUtf8Fails ==
    (TookChunk /\ PreHeader.last = 1) =>
        LET acc == pre.block \o SubSeq(PrePayloadBuf, 1, PreHeader.length)
            k   == pre.emitted + 1
        IN  /\ ~from_utf8_ok(acc) =>
                  (ret = Err /\ Len(emitted) = pre.emitted)
            /\ ( /\ ~pre.failed
                 /\ k <= Len(BlocksOf(chunks))
                 /\ ~from_utf8_ok(Concat(BlocksOf(chunks)[k])) ) =>
                  (ret = Err /\ Len(emitted) = pre.emitted)

\* C9's case: on a connection that has emitted a message, the final chunk
\* of a block has just been taken, the accumulated bytes are ill-formed and
\* decode has failed.
C9_Witness ==
    /\ TookChunk
    /\ PreHeader.last = 1
    /\ pre.block # << >>
    /\ ~from_utf8_ok(block)
    /\ ret = Err
    /\ emitted # << >>

\* C10: once decode has failed with invalid UTF-8, no later decode call
\* emits a message.
C10_FailureIsFatal ==
    (LastStepDecode /\ pre.failed) => ret.kind # "Some"

---------------------------------------------------------------------------
(* The client: calls on one connection *)

\* The requests in flight: written to the transport, their call not resolved.
InFlight == Len(requests) - Len(returned)

\* C11: on one connection at most one request is in flight at any time; the
\* bytes of a second request are not written to the transport until the
\* response to the first has been received.
C11_OneInFlight == InFlight <= 1

\* C12: the text the N-th call returns is the server's N-th response block,
\* for every N >= 1.
C12_NthResponse ==
    \A n \in 1..Len(returned) :
        /\ n <= Len(BlocksOf(chunks))
        /\ returned[n] = Concat(BlocksOf(chunks)[n])

\* C16: no request bytes are written to the transport that bind_transport
\* bound until the handshake step has completed.
C16_HandshakeFirst == requests # << >> => conn.handshake

\* C17: connect yields a connection whose transport is bound over the codec,
\* or fails with an error value handed to the caller; it never aborts.
C17_ConnectOutcome ==
    conn.state # "none" => conn.state \in {"bound", "io_error", "failed"}

---------------------------------------------------------------------------
(* The error classifier *)

\* The status table: code to kind.
StatusTable == {Code42S02, CodeM0M29, Code2D000, Code40000}
KindOf(code) == IF code = Code42S02 THEN OperationalError ELSE IntegrityError

\* A text has been classified and its first 6 characters are a code of the
\* table.  The codes are ASCII, so characters and bytes agree here.
HasKnownCode(text) == Len(text) >= 6 /\ SubSeq(text, 1, 6) \in StatusTable
WasClassified == parsed # NotParsed

\* C13: a text whose first 6 characters are a code of the status table is
\* classified as that code's kind, with the text after the code as the
\* remainder, also when nothing follows the code ("42S02!" gives
\* OperationalError and the empty remainder).
C13_KnownCode ==
    (WasClassified /\ HasKnownCode(parsed.text)) =>
        parsed.result = Classified(KindOf(SubSeq(parsed.text, 1, 6)),
                                   SubSeq(parsed.text, 7, Len(parsed.text)))

\* C14: a text shorter than 6 characters, or whose first 6 characters are
\* not a code of the status table, is classified as OperationalError with
\* the entire text as the message.
C14_UnknownCode ==
    (WasClassified /\ ~HasKnownCode(parsed.text)) =>
        parsed.result = Classified(OperationalError, parsed.text)

---------------------------------------------------------------------------
(* The worked example of the encoding *)

\* encode has been called once, on TestInput, into an empty buffer that has
\* not been written out yet.
TestInputEncoded == encoded = << TestInput >> /\ written = 0

\* The last step was a decode call by a fresh decoder on exactly bytes.
FreshDecodeOf(bytes) ==
    /\ LastStepDecode
    /\ pre.flag = MapiCodec_new.flag
    /\ pre.block = MapiCodec_new.block
    /\ pre.buf = bytes

---------------------------------------------------------------------------
(* The layout of what encode writes *)

\* The bytes of a chunk: the value length * 2 + last, low byte first, then
\* the payload.
SerialOf(c) ==
    << (c.length * 2 + c.last) % 256, (c.length * 2 + c.last) \div 256 >>
        \o c.payload

\* The buffer holds everything encode has appended: nothing was written out.
AllInBuffer == encoded # << >> /\ written = 0

\* C18: encode appends chunks whose payloads, concatenated in order, are the
\* bytes of the message, each of at most MAX_PACKAGE_LENGTH bytes; a chunk
\* is the 2-byte little-endian value (length << 1) | last followed by its
\* length payload bytes; last is 1 exactly when length < MAX_PACKAGE_LENGTH;
\* the value fits in 16 bits.
C18_EncodeChunks ==
    AllInBuffer =>
        LET cs == ChunksOf(out) IN
        /\ out = Concat([i \in 1..Len(cs) |-> SerialOf(cs[i])])
        /\ Concat([i \in 1..Len(cs) |-> cs[i].payload]) = Concat(encoded)
        /\ \A i \in 1..Len(cs) :
            /\ cs[i].length = Len(cs[i].payload)
            /\ cs[i].length <= MAX_PACKAGE_LENGTH
            /\ cs[i].last = 1 <=> cs[i].length < MAX_PACKAGE_LENGTH
            /\ Len(cs[i].payload) * 2 + cs[i].last < U16

\* C18's case: a message longer than one chunk was encoded: a full chunk
\* with last 0 is followed by a shorter one with last 1.
C18_Witness ==
    /\ AllInBuffer
    /\ Len(ChunksOf(out)) = 2
    /\ ChunksOf(out)[1].length = MAX_PACKAGE_LENGTH
    /\ ChunksOf(out)[1].last = 0
    /\ ChunksOf(out)[2].length >= 1
    /\ ChunksOf(out)[2].last = 1

---------------------------------------------------------------------------
(* What a decode call consumes *)

\* Bytes the last decode call took from the front of the buffer.
Taken == Len(pre.buf) - Len(buf)

\* Bytes of header the last decode call had to read: none when a header
\* was pending.
HeaderBytes == IF pre.flag = None THEN 2 ELSE 0

\* C19: a decode call consumes exactly 0 bytes, 2 bytes (a header), length
\* bytes (the whole payload of the pending header) or 2 + length bytes
\* (header and whole payload), with length = flag >> 1 and last = flag & 1
\* of the little-endian header; never a part of a payload; and when it
\* returns, a header is pending only if the buffer holds fewer than length
\* bytes.
C19_WholeUnits ==
    LastStepDecode =>
        /\ Taken >= 0
        /\ buf = SubSeq(pre.buf, Taken + 1, Len(pre.buf))
        /\ IF ~PreHasHeader
           THEN Taken = 0 /\ flag = None /\ block = pre.block
           ELSE IF Len(PrePayloadBuf) < PreHeader.length
                THEN /\ Taken = HeaderBytes
                     /\ flag = Some(PreHeader)
                     /\ block = pre.block
                ELSE /\ Taken = HeaderBytes + PreHeader.length
                     /\ flag = None
                     /\ block = pre.block
                                \o SubSeq(PrePayloadBuf, 1, PreHeader.length)
        /\ flag # None => Len(buf) < flag[1].length

\* C19's case: the buffer held a header and a part of its payload; decode
\* has taken the 2 bytes of the header and left the part where it was.
C19_Witness ==
    /\ LastStepDecode
    /\ pre.flag = None
    /\ Len(pre.buf) = 3
    /\ Taken = 2
    /\ flag # None
    /\ flag[1].length = 2
    /\ Len(buf) = 1

---------------------------------------------------------------------------
(* The length field *)

\* C20: every header the decoder holds as pending, whatever bytes were
\* received, has length <= MAX_PACKAGE_LENGTH = 8190; a header with a
\* larger length field is never accepted as pending.
C20_HeaderLength == flag # None => flag[1].length <= MAX_PACKAGE_LENGTH

---------------------------------------------------------------------------
(* The bytes of the stream, from the wire to the block *)

\* The stream the server has written: its chunks, one after the other.
StreamOf(cs) ==
    Concat([i \in 1..Len(cs) |-> ChunkBytes(cs[i].payload, cs[i].last)])

\* The bytes of the stream up to the end of its k-th chunk.
EndOfChunk(k) ==
    LET Size[i \in 0..k] ==
            IF i = 0 THEN 0 ELSE Size[i - 1] + 2 + Len(chunks[i].payload)
    IN  Size[k]

\* The number of chunks whose payload decode has consumed.
ChunksTaken ==
    CHOOSE k \in 0..Len(chunks) :
        /\ EndOfChunk(k) <= Consumed
        /\ \A j \in (k + 1)..Len(chunks) : EndOfChunk(j) > Consumed

\* The number of chunks in the blocks that were emitted as messages.
ChunksEmitted ==
    LET bs == BlocksOf(chunks)
        Count[j \in 0..Len(emitted)] ==
            IF j = 0 THEN 0 ELSE Count[j - 1] + Len(bs[j])
    IN  Count[Len(emitted)]

\* The payloads of the chunks from the i-th to the j-th, in order.
PayloadsOf(i, j) == Concat([n \in 1..(j - i + 1) |-> chunks[i + n - 1].payload])

\* C21: the decoder never reads past the bytes available and never discards
\* unconsumed bytes: the buffer is the not-yet-consumed suffix of the
\* received stream, in order, and the accumulated block is the in-order
\* concatenation of the payloads of the chunks consumed since the decoder
\* was last reset, that is, since the last message was emitted.
C21_NoByteLost ==
    ~failed =>
        /\ Consumed >= 0
        /\ buf = SubSeq(StreamOf(chunks), Consumed + 1, Arrived)
        /\ block = PayloadsOf(ChunksEmitted + 1, ChunksTaken)

---------------------------------------------------------------------------
(* What encode leaves alone *)

\* The step hands a message to encode.
EncodeStep == encoded' # encoded
\* The message that step encodes.
EncodedNow == encoded'[Len(encoded')]

\* C22: a call to encode leaves the decoder's state (pending header,
\* accumulated bytes) and the bytes already in the output buffer unchanged
\* and only appends to that buffer; the bytes appended depend on the message
\* alone; so the call changes nothing in what decode does next, also in the
\* middle of a block.
C22_EncodeStateless ==
    [][EncodeStep =>
          /\ flag' = flag
          /\ block' = block
          /\ buf' = buf
          /\ emitted' = emitted
          /\ IsPrefix(out, out')
          /\ out' = out \o encode(EncodedNow, << >>)
          /\ decode(flag', block', buf') = decode(flag, block, buf)]_vars

\* C22's case: the same message has just been encoded a second time, while
\* the decoder was in the middle of a chunk of its first encoding: the
\* header pending, the payload not yet there.
\* (No delivery and no decode call leaves the buffer empty with no call
\* recorded, and a flush leaves the output buffer empty.)
C22_Witness ==
    /\ Len(encoded) = 2
    /\ encoded[1] = encoded[2]
    /\ out = encode(encoded[1], << >>)
    /\ flag # None
    /\ buf = << >>
    /\ ret = NoCall
    /\ wire # << >>

---------------------------------------------------------------------------
(* Progress under the framed transport *)

\* All the bytes of the j-th block the server sent have arrived.
BlockArrived(j) == j <= Len(BlocksOf(chunks)) /\ Arrived >= EndOfBlock(j)

\* C23: when decode is called again after each message and after each
\* arrival of bytes, but after need-more-data not before new bytes arrive,
\* every block whose bytes have all arrived is eventually emitted as a
\* message, also when several of its chunks arrived together and no further
\* bytes ever arrive.
C23_EventuallyEmitted ==
    \A j \in 1..MaxHead : [](BlockArrived(j) => <>(Len(emitted) >= j))

---------------------------------------------------------------------------
(* Chunks without payload *)

\* The last decode call worked with a header whose length is 0.
EmptyChunkCall == LastStepDecode /\ PreHasHeader /\ PreHeader.length = 0

\* C24: decode accepts a chunk whose header length is 0: it needs no further
\* input and consumes no payload byte, and when the last bit is 1 it
\* completes the block with the bytes accumulated; so the message is the
\* payloads of the block's own chunks: those of the non-final chunk before
\* an empty final chunk, and the empty message for a lone empty final chunk.
C24_EmptyChunk ==
    EmptyChunkCall =>
        /\ Taken = HeaderBytes
        /\ flag = None
        /\ block = pre.block
        /\ (PreHeader.last = 1 /\ from_utf8_ok(pre.block)) =>
               ret = OkSome(pre.block)
        /\ ( /\ PreHeader.last = 1
             /\ ~pre.failed
             /\ pre.emitted < Len(BlocksOf(chunks))
             /\ from_utf8_ok(Concat(BlocksOf(chunks)[pre.emitted + 1])) ) =>
               ret = OkSome(Concat(BlocksOf(chunks)[pre.emitted + 1]))

====
